---------------------------- MODULE Spec2Model ----------------------------
(***************************************************************************)
(* Model of commenda_cc.py: a Streamlit script that authenticates against  *)
(* Google Calendar, lists the events of a date range, asks a language      *)
(* model for a category per event, patches the mapped colour onto each     *)
(* event and can revert the colours from the result table kept in the      *)
(* session.                                                                *)
(*                                                                         *)
(* Streamlit re-executes main() from the top after every interaction with  *)
(* a widget that the previous execution rendered.  Every action below is   *)
(* one interaction followed by the whole re-execution of main().           *)
(*                                                                         *)
(* Text that the code transforms (labels, replies of the language model)   *)
(* is a sequence of one-character strings, so that lower() and strip()     *)
(* are computed character by character.                                    *)
(***************************************************************************)
EXTENDS Integers, Sequences, FiniteSets, TLC

VARIABLES
    tokenFile,      \* content of token.pickle: NoToken or a credential
    authCache,      \* st.cache_resource of authenticate_google_calendar, by argument
    service,        \* "service" in st.session_state
    df,             \* st.session_state.df: NoDf or the table of result rows
    code,           \* value of the text input for the authorization code
    start_date,     \* value of the "Start Date" input
    end_date,       \* value of the "End Date" input
    shown,          \* widgets rendered by the latest execution of main()
    remote,         \* the primary calendar: event id -> [eventType, colorId]
    calls,          \* network calls issued by the latest execution, in order
    ui,             \* messages rendered by the latest execution, in order
    path,           \* which way the latest execution of main() went
    authPath,       \* which way authenticate_google_calendar went in it
    events,         \* the items returned by the latest list call
    matching,       \* ids of what the calendar held in the range at that list call
    preRun,         \* remote colours when the run that produced df began
    lastFetchRows,  \* rows produced by the most recent fetch action
    label,          \* input of the colour mapper under check
    mapped          \* its result

vars == <<tokenFile, authCache, service, df, code, start_date, end_date, shown,
          remote, calls, ui, path, authPath, events, matching, preRun,
          lastFetchRows, label, mapped>>

sessionVars == <<tokenFile, authCache, service, df, code, start_date, end_date,
                 shown, remote, calls, ui, path, authPath, events, matching,
                 preRun, lastFetchRows>>

mapperVars == <<label, mapped>>

-----------------------------------------------------------------------------
(* Bounds *)

NumEvents == 2          \* events held by the primary calendar

-----------------------------------------------------------------------------
(* Characters, str.lower() and str.strip() *)

CasePairs ==
    { <<"A","a">>, <<"C","c">>, <<"E","e">>, <<"G","g">>, <<"H","h">>,
      <<"I","i">>, <<"L","l">>, <<"M","m">>, <<"N","n">>, <<"O","o">>,
      <<"P","p">>, <<"R","r">>, <<"S","s">>, <<"T","t">> }

Whitespace == {" ", "\n", "\t"}

ToLower == [u \in {p[1] : p \in CasePairs} |-> (CHOOSE p \in CasePairs : p[1] = u)[2]]

ToUpper == [l \in {p[2] : p \in CasePairs} |-> (CHOOSE p \in CasePairs : p[2] = l)[1]]

LowerChar(c) == IF c \in DOMAIN ToLower THEN ToLower[c] ELSE c

UpperChar(c) == IF c \in DOMAIN ToUpper THEN ToUpper[c] ELSE c

lower(s) == [i \in 1..Len(s) |-> LowerChar(s[i])]

RECURSIVE lstrip(_)
lstrip(s) ==
    IF s # <<>> /\ s[1] \in Whitespace THEN lstrip(Tail(s)) ELSE s

RECURSIVE rstrip(_)
rstrip(s) ==
    IF s # <<>> /\ s[Len(s)] \in Whitespace
    THEN rstrip(SubSeq(s, 1, Len(s) - 1))
    ELSE s

strip(s) == rstrip(lstrip(s))

-----------------------------------------------------------------------------
(* CATEGORIES and category_to_color_id *)

Client == <<"C","l","i","e","n","t">>
Team == <<"T","e","a","m">>
OneOnOne == <<"O","n","e","-","o","n","-","O","n","e">>
Personal == <<"P","e","r","s","o","n","a","l">>
Other == <<"O","t","h","e","r">>

\* the dict in insertion order, as items()
CATEGORIES ==
    << <<"1", Client>>, <<"2", Team>>, <<"5", OneOnOne>>,
       <<"6", Personal>>, <<"11", Other>> >>

DefaultColorId == "11"

RECURSIVE ScanCaseSensitive(_, _)
ScanCaseSensitive(category, i) ==
    IF i > Len(CATEGORIES) THEN DefaultColorId
    ELSE IF CATEGORIES[i][2] = category THEN CATEGORIES[i][1]
    ELSE ScanCaseSensitive(category, i + 1)

category_to_color_id_CaseSensitive(category) == ScanCaseSensitive(category, 1)

RECURSIVE ScanCategories(_, _)
ScanCategories(category, i) ==
    IF i > Len(CATEGORIES) THEN DefaultColorId
    ELSE IF lower(CATEGORIES[i][2]) = lower(category) THEN CATEGORIES[i][1]
    ELSE ScanCategories(category, i + 1)

category_to_color_id(category) == ScanCategories(category, 1)

-----------------------------------------------------------------------------
(* Inputs of the colour mapper: every spelling of the five names in upper   *)
(* and lower case, and labels that are none of them.                        *)

RECURSIVE Spellings(_)
Spellings(s) ==
    IF s = <<>> THEN { <<>> }
    ELSE { <<c>> \o t : c \in {LowerChar(s[1]), UpperChar(s[1])},
                        t \in Spellings(Tail(s)) }

ForeignLabels ==
    { <<>>,
      <<"M","e","e","t","i","n","g">>,
      <<"T","e","a","m","s">>,
      <<"T","e","a">>,
      <<"T","e","a","m"," ">>,
      <<" ","t","e","a","m">>,
      <<"O","n","e","o","n","O","n","e">>,
      <<"O","n","e"," ","o","n"," ","O","n","e">>,
      <<"C","l","i","e","n","t","\n">>,
      <<"o","t","h","e","r","s">>,
      <<"P","e","r","s","o","n","a","l","-">>,
      <<"1","1">>, <<"2">> }

Labels ==
    Spellings(Client) \cup Spellings(Team) \cup Spellings(OneOnOne)
    \cup Spellings(Personal) \cup Spellings(Other) \cup ForeignLabels

Unset == "unset"

MapperInit == label \in Labels /\ mapped = Unset

MapLabel ==
    /\ mapped = Unset
    /\ mapped' = category_to_color_id(label)
    /\ UNCHANGED label

NextLabel ==
    /\ mapped # Unset
    /\ label' \in Labels
    /\ mapped' = Unset

-----------------------------------------------------------------------------
(* Dates, datetime.combine(...).isoformat() + 'Z' *)

Today == <<2024, 12, 30>>      \* datetime.date.today()
Today7 == <<2025, 1, 6>>        \* today + timedelta(days=7)

Dates == {Today, Today7}

DateGT(a, b) ==
    \/ a[1] > b[1]
    \/ a[1] = b[1] /\ a[2] > b[2]
    \/ a[1] = b[1] /\ a[2] = b[2] /\ a[3] > b[3]

DateLE(a, b) == ~DateGT(a, b)

time_min == [hour |-> 0, minute |-> 0, second |-> 0, microsecond |-> 0]

time_max_millis ==
    [hour |-> 23, minute |-> 59, second |-> 59, microsecond |-> 999000]

time_max == [hour |-> 23, minute |-> 59, second |-> 59, microsecond |-> 999999]

RECURSIVE ZeroPad(_, _)
ZeroPad(str, width) ==
    IF Len(str) >= width THEN str ELSE ZeroPad("0" \o str, width)

\* datetime.isoformat(): the fraction is printed only when it is not zero,
\* and then with six digits
isoformat(date, time) ==
    ZeroPad(ToString(date[1]), 4) \o "-" \o ZeroPad(ToString(date[2]), 2)
    \o "-" \o ZeroPad(ToString(date[3]), 2) \o "T"
    \o ZeroPad(ToString(time.hour), 2) \o ":"
    \o ZeroPad(ToString(time.minute), 2) \o ":"
    \o ZeroPad(ToString(time.second), 2)
    \o (IF time.microsecond = 0 THEN ""
        ELSE "." \o ZeroPad(ToString(time.microsecond), 6))

start_iso(date) == isoformat(date, time_min) \o "Z"

end_iso(date) == isoformat(date, time_max) \o "Z"

DateRangeNeverRejected(sd, ed) == FALSE

\* main, lines 144-146: the run stops here when start_date > end_date
DateRangeRejected(sd, ed) == DateGT(sd, ed)

-----------------------------------------------------------------------------
(* The primary calendar *)

Absent == "absent"              \* a key or a file that is not there

EventIds == 1..NumEvents

\* the calendar's events: every second one is a working-location marker, the
\* first two start on Today and the later ones on Today7; the others start
\* without a colour and get one from the runs
EventTypeOf(id) == IF id % 2 = 0 THEN "workingLocation" ELSE "default"

PriorColors == {Absent, "9"}

StartDateOf(id) == IF id <= 2 THEN Today ELSE Today7

\* the ids in ascending order of start time (orderBy='startTime')
ByStartTime ==
    LET ids == [i \in 1..NumEvents |-> i]
    IN  SelectSeq(ids, LAMBDA i : StartDateOf(i) = Today)
        \o SelectSeq(ids, LAMBDA i : StartDateOf(i) = Today7)

\* the event resource as the list call returns it
EventOf(id) ==
    [id |-> id, eventType |-> remote[id].eventType, colorId |-> remote[id].colorId]

\* all events of the range, ordered by start time
MatchingIds(sd, ed) ==
    SelectSeq(ByStartTime,
              LAMBDA i : DateLE(sd, StartDateOf(i)) /\ DateLE(StartDateOf(i), ed))

Matching(sd, ed) ==
    [k \in 1..Len(MatchingIds(sd, ed)) |-> EventOf(MatchingIds(sd, ed)[k])]

\* events().list(...).execute() is called once, without pageToken, and its
\* 'items' are taken: the first page of the result.  The service cuts a page
\* after maxResults events (250 unless the request sets it, and this one
\* does not); here it may cut after any event.
FirstPages(sd, ed) ==
    LET all == Matching(sd, ed)
    IN  { SubSeq(all, 1, k) : k \in (IF all = <<>> THEN {0} ELSE 1..Len(all)) }

Patched(rem, id, color_id) == [rem EXCEPT ![id].colorId = color_id]

ListCall(sd, ed, ok) ==
    [op |-> "list", timeMin |-> start_iso(sd), timeMax |-> end_iso(ed), ok |-> ok]

GenerateCall(id, ok) == [op |-> "generate", id |-> id, ok |-> ok]

PatchCall(id, color_id, ok) ==
    [op |-> "patch", id |-> id, colorId |-> color_id, ok |-> ok]

-----------------------------------------------------------------------------
(* categorize_with_gemini *)

ReplyTexts == { <<" ","t","e","a","m","\n">> }

\* what model.generate_content(prompt) does: a response with a text, or an
\* exception
ReplyOutcomes ==
    { [raised |-> FALSE, text |-> t] : t \in ReplyTexts }
    \cup { [raised |-> TRUE, text |-> <<>>] }

categorize_with_gemini_Empty(reply) ==
    IF reply.raised THEN <<>> ELSE strip(reply.text)

categorize_with_gemini(reply) ==
    IF reply.raised THEN Other ELSE strip(reply.text)

-----------------------------------------------------------------------------
(* authenticate_google_calendar, behind st.cache_resource *)

NoCode == ""                    \* the text input is empty: code=None

Codes == {NoCode, "4/0AbC", "4/0XyZ"}

Miss == [hit |-> FALSE, service |-> FALSE, auth_url |-> FALSE]

\* token.pickle: exists is os.path.exists("token.pickle"), the other fields
\* are those of the credential pickled in it
NoToken == [exists |-> FALSE, expired |-> FALSE, refresh_token |-> FALSE]

FreshCredential == [exists |-> TRUE, expired |-> FALSE, refresh_token |-> TRUE]

StoredTokens ==
    { NoToken, FreshCredential,
      [exists |-> TRUE, expired |-> TRUE, refresh_token |-> TRUE],
      [exists |-> TRUE, expired |-> TRUE, refresh_token |-> FALSE] }

valid(creds) == ~creds.expired

AuthOutcome(svc, url, tf, raised, way) ==
    [service |-> svc, auth_url |-> url, tokenFile |-> tf, raised |-> raised,
     authPath |-> way]

\* the outcomes of one execution of the body, for argument c and token.pickle tf
authenticate_google_calendar(c, tf) ==
    IF tf.exists /\ valid(tf)
    THEN { AuthOutcome(TRUE, FALSE, tf, FALSE, "stored") }
    ELSE IF tf.exists /\ tf.expired /\ tf.refresh_token
    THEN \* creds.refresh(Request()): creds is refreshed in memory only
         { AuthOutcome(TRUE, FALSE, tf, FALSE, "refreshed"),
           AuthOutcome(FALSE, FALSE, tf, TRUE, "refresh_raised") }
    ELSE IF c = NoCode
    THEN { AuthOutcome(FALSE, TRUE, tf, FALSE, "need_code") }
    ELSE \* flow.fetch_token(code=code), then pickle.dump
         { AuthOutcome(TRUE, FALSE, FreshCredential, FALSE, "exchanged"),
           AuthOutcome(FALSE, FALSE, tf, FALSE, "exchange_failed") }

\* st.cache_resource: a returned value is kept by argument and returned again
\* without executing the body; an exception is not kept
CachedAuthenticate(c) ==
    IF authCache[c].hit
    THEN { [out |-> AuthOutcome(authCache[c].service, authCache[c].auth_url,
                                tokenFile, FALSE, "cached"),
            cache |-> authCache] }
    ELSE { [out |-> o,
            cache |-> IF o.raised THEN authCache
                      ELSE [authCache EXCEPT ![c] =
                               [hit |-> TRUE, service |-> o.service,
                                auth_url |-> o.auth_url]]]
           : o \in authenticate_google_calendar(c, tokenFile) }

-----------------------------------------------------------------------------
(* main: the categorize loop, lines 170-201 *)

\* st.session_state.df: present is '"df" in st.session_state'
NoDf == [present |-> FALSE, rows |-> <<>>]

DataFrame(rows) == [present |-> TRUE, rows |-> rows]

is_working_location(event) == event.eventType = "workingLocation"

\* event.get('colorId', 'None')
PreviousColorId(event) == IF event.colorId = Absent THEN "None" ELSE event.colorId

\* columns Description, Title, Start and End are copied from the event and
\* take no part in any decision; they are left out of the row
ResultRow(event, category) ==
    [Event_ID |-> event.id,
     Category |-> category,
     Previous_Color_ID |-> PreviousColorId(event),
     Skipped_Color_Update |-> IF is_working_location(event) THEN "Yes" ELSE "No"]

PatchFailureAborts == FALSE

\* except Exception: pass.  Were it FALSE, the exception of a patch would
\* leave the loop and main (acc.aborted)
PatchFailureSwallowed == TRUE

\* acc = [rows, calls, remote, ui, skipped, aborted]; replies[i] is what the
\* language model does for the i-th event, oks[i] whether its patch succeeds
RECURSIVE CategorizeLoop(_, _, _, _, _)
CategorizeLoop(evs, replies, oks, i, acc) ==
    IF i > Len(evs) \/ acc.aborted THEN acc
    ELSE
      LET event    == evs[i]
          category == categorize_with_gemini(replies[i])
          color_id == category_to_color_id(category)
          seen     == [acc EXCEPT
                         !.rows  = Append(@, ResultRow(event, category)),
                         !.calls = Append(@, GenerateCall(event.id, ~replies[i].raised)),
                         !.ui    = IF replies[i].raised
                                   THEN Append(@, "gemini_error") ELSE @]
      IN  IF is_working_location(event)
          THEN CategorizeLoop(evs, replies, oks, i + 1,
                              [seen EXCEPT !.skipped = @ + 1])
          ELSE CategorizeLoop(evs, replies, oks, i + 1,
                 [seen EXCEPT
                    !.calls   = Append(@, PatchCall(event.id, color_id, oks[i])),
                    !.remote  = IF oks[i] THEN Patched(@, event.id, color_id) ELSE @,
                    !.aborted = ~oks[i] /\ ~PatchFailureSwallowed])

(* main: the revert loop, lines 216-229 *)

RevertBodyFromCategory(row) == [colorId |-> category_to_color_id(row.Category)]

\* body={"colorId": row["Previous Color ID"]}
RevertBody(row) == [colorId |-> row.Previous_Color_ID]

\* acc = [calls, remote]; oks[i] is whether the patch of the i-th row succeeds
RECURSIVE RevertLoop(_, _, _, _)
RevertLoop(rows, oks, i, acc) ==
    IF i > Len(rows) THEN acc
    ELSE
      LET row == rows[i]
      IN  IF row.Previous_Color_ID # "None"
          THEN RevertLoop(rows, oks, i + 1,
                 [calls  |-> Append(acc.calls,
                                PatchCall(row.Event_ID, RevertBody(row).colorId, oks[i])),
                  remote |-> IF oks[i]
                             THEN Patched(acc.remote, row.Event_ID, RevertBody(row).colorId)
                             ELSE acc.remote])
          ELSE RevertLoop(rows, oks, i + 1, acc)

-----------------------------------------------------------------------------
(* main, lines 141-229: what one execution does once it holds the service.  *)
(* table is st.session_state.df (or NoDf) at the start, btn the button that *)
(* was clicked.  The result is the set of ways the execution can end.       *)

ColorsOf(rem) == [id \in EventIds |-> rem[id].colorId]

AllWidgets == {"dates", "fetch_btn", "revert_btn"}

Untouched(table, lfr) ==
    [df |-> table, remote |-> remote, calls |-> <<>>, ui |-> <<>>,
     path |-> "idle", events |-> <<>>, matching |-> <<>>, preRun |-> preRun,
     lastFetchRows |-> lfr, shown |-> {}]

\* lines 203-213, after the loop
Categorized(keep, sd, ed, evs, acc) ==
    IF acc.aborted
    THEN [keep EXCEPT !.remote = acc.remote, !.calls = acc.calls,
                      !.ui = Append(acc.ui, "exception"), !.path = "exception",
                      !.events = evs, !.matching = MatchingIds(sd, ed),
                      !.lastFetchRows = <<>>, !.shown = {"dates", "fetch_btn"}]
    ELSE [keep EXCEPT !.df = DataFrame(acc.rows), !.remote = acc.remote, !.calls = acc.calls,
                      !.ui = acc.ui \o <<"success">>
                             \o (IF acc.skipped > 0 THEN <<"skipped_info">> ELSE <<>>),
                      !.path = "categorized",
                      !.events = evs, !.matching = MatchingIds(sd, ed),
                      !.preRun = ColorsOf(remote),
                      !.lastFetchRows = acc.rows, !.shown = AllWidgets]

\* lines 166-201, for the items evs of the list call
FetchPage(keep, sd, ed, evs) ==
    IF evs = <<>>
    THEN { [keep EXCEPT !.calls = <<ListCall(sd, ed, TRUE)>>,
                        !.ui = <<"no_events">>, !.path = "no_events",
                        !.matching = MatchingIds(sd, ed),
                        !.lastFetchRows = <<>>, !.shown = {"dates", "fetch_btn"}] }
    ELSE UNION {
           { Categorized(keep, sd, ed, evs, acc) :
               acc \in { CategorizeLoop(evs, replies, oks, 1,
                            [rows |-> <<>>, calls |-> <<ListCall(sd, ed, TRUE)>>,
                             remote |-> remote, ui |-> <<>>, skipped |-> 0,
                             aborted |-> FALSE]) } }
           : replies \in [1..Len(evs) -> ReplyOutcomes],
             oks \in [{i \in 1..Len(evs) : ~is_working_location(evs[i])} -> BOOLEAN] }

\* lines 148-213
FetchRuns(keep, sd, ed) ==
    { [keep EXCEPT !.calls = <<ListCall(sd, ed, FALSE)>>,
                   !.ui = <<"api_error">>, !.path = "fetch_error",
                   !.lastFetchRows = <<>>, !.shown = {"dates", "fetch_btn"}] }
    \cup UNION { FetchPage(keep, sd, ed, evs) : evs \in FirstPages(sd, ed) }

\* lines 216-229
RevertRuns(keep, rows) ==
    { [keep EXCEPT !.remote = acc.remote, !.calls = acc.calls,
                   !.ui = <<"reverted">>, !.path = "reverted",
                   !.shown = AllWidgets]
      : acc \in { RevertLoop(rows, oks, 1, [calls |-> <<>>, remote |-> remote])
                  : oks \in [{i \in 1..Len(rows) : rows[i].Previous_Color_ID # "None"}
                              -> BOOLEAN] } }

Body(table, lfr, sd, ed, btn) ==
    LET keep == Untouched(table, lfr)
    IN  IF DateRangeRejected(sd, ed)
        THEN { [keep EXCEPT !.ui = <<"date_error">>, !.path = "date_error",
                            !.shown = {"dates"}] }
        ELSE IF btn = "fetch" THEN FetchRuns(keep, sd, ed)
        ELSE IF table.present /\ btn = "revert" THEN RevertRuns(keep, table.rows)
        ELSE { [keep EXCEPT !.shown = IF table.present THEN AllWidgets
                                      ELSE {"dates", "fetch_btn"}] }

\* One execution of main() for a session holding svc ("service" in
\* st.session_state) and table, with the widget values c, sd, ed and btn.
Main(svc, table, lfr, c, sd, ed, btn) ==
    \E a \in (IF svc
              THEN { [out |-> AuthOutcome(TRUE, FALSE, tokenFile, FALSE, "in_session"),
                      cache |-> authCache] }
              ELSE CachedAuthenticate(c)) :
      /\ tokenFile' = a.out.tokenFile
      /\ authCache' = a.cache
      /\ authPath' = a.out.authPath
      /\ service' = a.out.service
      /\ IF ~a.out.service
         THEN \* lines 135-137, or the exception of creds.refresh leaves main
              /\ df' = table
              /\ lastFetchRows' = lfr
              /\ path' = IF a.out.raised THEN "exception" ELSE "auth_pending"
              /\ ui' = IF a.out.raised THEN <<"exception">>
                       ELSE IF a.out.authPath = "exchange_failed"
                            THEN <<"auth_error", "auth_warning">>
                            ELSE <<"auth_warning">>
              /\ calls' = <<>>
              /\ events' = <<>>
              /\ matching' = <<>>
              /\ shown' = {"code_input"}
              /\ code' = c
              /\ start_date' = Today
              /\ end_date' = Today7
              /\ UNCHANGED <<remote, preRun>>
         ELSE \E r \in Body(table, lfr, sd, ed, btn) :
              /\ df' = r.df
              /\ remote' = r.remote
              /\ calls' = r.calls
              /\ ui' = r.ui
              /\ path' = r.path
              /\ events' = r.events
              /\ matching' = r.matching
              /\ preRun' = r.preRun
              /\ lastFetchRows' = r.lastFetchRows
              /\ shown' = r.shown
              /\ code' = NoCode
              /\ start_date' = sd
              /\ end_date' = ed
      /\ UNCHANGED mapperVars

-----------------------------------------------------------------------------
(* Interactions *)

\* a browser opens the page: a new session, and the first execution
Open ==
    Main(FALSE, NoDf, <<>>, NoCode, Today, Today7, "none")

TypeCode ==
    /\ "code_input" \in shown
    /\ \E c \in Codes \ {code} :
          Main(service, df, lastFetchRows, c, start_date, end_date, "none")

ChangeStart ==
    /\ "dates" \in shown
    /\ \E d \in Dates \ {start_date} :
          Main(service, df, lastFetchRows, code, d, end_date, "none")

ChangeEnd ==
    /\ "dates" \in shown
    /\ \E d \in Dates \ {end_date} :
          Main(service, df, lastFetchRows, code, start_date, d, "none")

ClickFetch ==
    /\ "fetch_btn" \in shown
    /\ Main(service, df, lastFetchRows, code, start_date, end_date, "fetch")

ClickRevert ==
    /\ "revert_btn" \in shown
    /\ Main(service, df, lastFetchRows, code, start_date, end_date, "revert")

\* time passes: the stored access token expires
Expire ==
    /\ tokenFile.exists
    /\ ~tokenFile.expired
    /\ tokenFile' = [tokenFile EXCEPT !.expired = TRUE]
    /\ authPath' = "none"
    /\ UNCHANGED <<authCache, service, df, code, start_date, end_date, shown,
                   remote, calls, ui, path, events, matching, preRun,
                   lastFetchRows, label, mapped>>

InitialCalendars ==
    { rem \in [EventIds -> [eventType : {"default", "workingLocation"},
                            colorId : PriorColors]] :
        \A id \in EventIds :
            /\ rem[id].eventType = EventTypeOf(id)
            /\ rem[id].eventType = "default" => rem[id].colorId = Absent }

SessionInit(tokens) ==
    /\ tokenFile \in tokens
    /\ authCache = [c \in Codes |-> Miss]
    /\ service = FALSE
    /\ df = NoDf
    /\ code = NoCode
    /\ start_date = Today
    /\ end_date = Today7
    /\ shown = {}
    /\ remote \in InitialCalendars
    /\ calls = <<>>
    /\ ui = <<>>
    /\ path = "start"
    /\ authPath = "none"
    /\ events = <<>>
    /\ matching = <<>>
    /\ preRun = ColorsOf(remote)
    /\ lastFetchRows = <<>>

(* Sessions of an installation whose token.pickle holds a valid credential: *)
(* the first execution caches the handle under code=None, and token.pickle  *)
(* is not read again.                                                       *)

Init ==
    /\ SessionInit({FreshCredential})
    /\ label = Team
    /\ mapped = Unset

Next ==
    \/ Open
    \/ ChangeStart
    \/ ChangeEnd
    \/ ClickFetch
    \/ ClickRevert

Spec == Init /\ [][Next]_vars

(* Signing in, from every content of token.pickle *)

AuthInit ==
    /\ SessionInit(StoredTokens)
    /\ label = Team
    /\ mapped = Unset

AuthNext ==
    \/ Open
    \/ TypeCode
    \/ ChangeStart
    \/ ChangeEnd
    \/ Expire

AuthSpec == AuthInit /\ [][AuthNext]_vars

(* The colour mapper alone, applied to every label of Labels *)

MapperSpecInit ==
    /\ MapperInit
    /\ SessionInit({NoToken})
    /\ \A id \in EventIds : remote[id].colorId = Absent

MapperNext ==
    \/ MapLabel /\ UNCHANGED sessionVars
    \/ NextLabel /\ UNCHANGED sessionVars

MapperSpec == MapperSpecInit /\ [][MapperNext]_vars

-----------------------------------------------------------------------------
(* Properties *)

IsPatch(c) == c.op = "patch"

IsGenerate(c) == c.op = "generate"

ListSucceeded == calls # <<>> /\ calls[1].op = "list" /\ calls[1].ok

IdsOfEvents(evs) == [k \in DOMAIN evs |-> evs[k].id]

IdsOfRows(rows) == [k \in DOMAIN rows |-> rows[k].Event_ID]

IdsOfCalls(cs) == [k \in DOMAIN cs |-> cs[k].id]

AllPatchesSucceeded == \A i \in DOMAIN calls : IsPatch(calls[i]) => calls[i].ok

\* C1: after a Revert whose patch calls all succeeded, every event whose row
\* recorded a prior colour has on the calendar the colour it had when the run
\* that produced the table began; and Revert issues no patch call for a row
\* whose prior colour was absent.
C1_RevertRestoresPriorColors ==
    path = "reverted" =>
        \A k \in DOMAIN df.rows :
            LET row == df.rows[k]
            IN  /\ (row.Previous_Color_ID # "None" /\ AllPatchesSucceeded)
                      => remote[row.Event_ID].colorId = preRun[row.Event_ID]
                /\ row.Previous_Color_ID = "None"
                      => \A i \in DOMAIN calls :
                            IsPatch(calls[i]) => calls[i].id # row.Event_ID

\* a Revert that succeeded in changing the colour of a categorized event back,
\* over a table that also has a row without a prior colour
C1_Witness ==
    /\ path = "reverted"
    /\ AllPatchesSucceeded
    /\ \E i \in DOMAIN calls :
          /\ IsPatch(calls[i])
          /\ remote[calls[i].id].eventType = "default"
          /\ \E k \in DOMAIN df.rows :
                /\ df.rows[k].Event_ID = calls[i].id
                /\ category_to_color_id(df.rows[k].Category) # calls[i].colorId
    /\ \E k \in DOMAIN df.rows : df.rows[k].Previous_Color_ID = "None"

\* C2: a fetched working-location event has a row marked as skipped, and no
\* patch call is ever issued for a working-location event.
C2_WorkingLocationNeverPatched ==
    /\ \A i \in DOMAIN calls :
          IsPatch(calls[i]) => remote[calls[i].id].eventType # "workingLocation"
    /\ path = "categorized" =>
          \A k \in DOMAIN events :
              events[k].eventType = "workingLocation" =>
                  /\ k \in DOMAIN df.rows
                  /\ df.rows[k].Event_ID = events[k].id
                  /\ df.rows[k].Skipped_Color_Update = "Yes"

\* C3: when the classification of an event raises, the run goes on to its
\* end: the event's row has the category "Other", the colour patched for it is
\* "11", and every fetched event is classified and has its row.
C3_ClassificationFailureContinues ==
    \A i \in DOMAIN calls :
        (IsGenerate(calls[i]) /\ ~calls[i].ok) =>
            /\ path = "categorized"
            /\ \E k \in DOMAIN df.rows :
                  /\ df.rows[k].Event_ID = calls[i].id
                  /\ df.rows[k].Category = <<"O","t","h","e","r">>
            /\ remote[calls[i].id].eventType = "default" =>
                  /\ i < Len(calls)
                  /\ IsPatch(calls[i + 1])
                  /\ calls[i + 1].id = calls[i].id
                  /\ calls[i + 1].colorId = "11"
            /\ \A j \in DOMAIN calls :
                  (IsPatch(calls[j]) /\ calls[j].id = calls[i].id)
                      => calls[j].colorId = "11"
            /\ \A k \in DOMAIN events :
                  \E j \in DOMAIN calls :
                      IsGenerate(calls[j]) /\ calls[j].id = events[k].id
            /\ IdsOfRows(df.rows) = IdsOfEvents(events)

\* the first of several events failed to classify, and the run went on
C3_Witness ==
    /\ path = "categorized"
    /\ Len(events) >= 2
    /\ Len(calls) >= 2
    /\ IsGenerate(calls[2])
    /\ ~calls[2].ok
    /\ remote[calls[2].id].eventType = "default"
    /\ Len(df.rows) = Len(events)

EqualIgnoringCase(a, b) ==
    /\ Len(a) = Len(b)
    /\ \A i \in DOMAIN a : UpperChar(a[i]) = UpperChar(b[i])

\* C4: the mapper returns a code for every label; a label that is one of the
\* five names in any letter case gets that name's code, and every other label
\* gets "11".
C4_MapperTotalCaseInsensitive ==
    mapped # Unset =>
        /\ mapped \in {"1", "2", "5", "6", "11"}
        /\ EqualIgnoringCase(label, Client) => mapped = "1"
        /\ EqualIgnoringCase(label, Team) => mapped = "2"
        /\ EqualIgnoringCase(label, OneOnOne) => mapped = "5"
        /\ EqualIgnoringCase(label, Personal) => mapped = "6"
        /\ EqualIgnoringCase(label, Other) => mapped = "11"
        /\ (\A name \in {Client, Team, OneOnOne, Personal, Other} :
               ~EqualIgnoringCase(label, name)) => mapped = "11"

\* a spelling of One-on-One that is not the table's own was mapped to "5"
C4_Witness ==
    /\ mapped = "5"
    /\ label # OneOnOne
    /\ label[1] = "o"

\* C5: an execution with the start date later than the end date reports the
\* error and issues no network call.
C5_BadRangeNoNetworkCall ==
    DateGT(start_date, end_date) =>
        /\ calls = <<>>
        /\ ui = <<"date_error">>

\* the range was turned around in a session that holds a table to revert
C5_Witness ==
    /\ start_date = Today7
    /\ end_date = Today
    /\ path = "date_error"
    /\ df.present

\* C6: a successful list call yields all events of the range, in order of
\* start time.
C6_FetchReturnsAllEvents ==
    ListSucceeded => IdsOfEvents(events) = matching

IsoDay(date) ==
    CASE date = Today  -> "2024-12-30"
      [] date = Today7 -> "2025-01-06"

\* C7 as stated: timeMin is the start date at 00:00:00 and timeMax the end
\* date at 23:59:59.999.
C7_TimeMaxMilliseconds ==
    \A i \in DOMAIN calls :
        calls[i].op = "list" =>
            /\ calls[i].timeMin = IsoDay(start_date) \o "T00:00:00Z"
            /\ calls[i].timeMax = IsoDay(end_date) \o "T23:59:59.999Z"

\* C7, amended: timeMin is the start date at 00:00:00 and timeMax the end date
\* at 23:59:59.999999, the last microsecond of the day.
C7_TimeBounds ==
    \A i \in DOMAIN calls :
        calls[i].op = "list" =>
            /\ calls[i].timeMin = IsoDay(start_date) \o "T00:00:00Z"
            /\ calls[i].timeMax = IsoDay(end_date) \o "T23:59:59.999999Z"

\* a list call over a range of more than one day
C7_Witness ==
    /\ calls # <<>>
    /\ calls[1].op = "list"
    /\ start_date = Today
    /\ end_date = Today7

\* C8: in a run, after the list call, the events are classified one by one in
\* fetch order; the patch of an event that is not a working location follows
\* its classification at once and carries the colour of its category; a patch
\* is only ever issued right after the classification of its event; whether
\* or not patches fail, the table ends with one row per event in fetch order.
C8_OneByOneInFetchOrder ==
    (ListSucceeded /\ events # <<>>) =>
        LET g == Tail(calls)
        IN  /\ path = "categorized"
            /\ df.present
            /\ IdsOfRows(df.rows) = IdsOfEvents(events)
            /\ IdsOfCalls(SelectSeq(g, IsGenerate)) = IdsOfEvents(events)
            /\ \A i \in DOMAIN g :
                  (IsGenerate(g[i]) /\ remote[g[i].id].eventType # "workingLocation")
                      => /\ i < Len(g)
                         /\ IsPatch(g[i + 1])
                         /\ g[i + 1].id = g[i].id
                         /\ \E k \in DOMAIN df.rows :
                               /\ df.rows[k].Event_ID = g[i].id
                               /\ g[i + 1].colorId
                                     = category_to_color_id(df.rows[k].Category)
            /\ \A i \in DOMAIN g :
                  IsPatch(g[i]) => /\ i > 1
                                   /\ IsGenerate(g[i - 1])
                                   /\ g[i - 1].id = g[i].id

\* a run of several events in which the patch of the first one failed
C8_Witness ==
    /\ path = "categorized"
    /\ Len(events) >= 2
    /\ Len(calls) >= 4
    /\ IsPatch(calls[3])
    /\ ~calls[3].ok
    /\ IsGenerate(calls[4])

\* C9: a Revert issues patch calls only for rows produced by the most recent
\* fetch action (none when that fetch failed or found no events), and the
\* Revert button is offered only when the session holds a table.
C9_RevertOnlyLatestFetch ==
    /\ path = "reverted" =>
          \A i \in DOMAIN calls :
              IsPatch(calls[i]) =>
                  \E k \in DOMAIN lastFetchRows :
                      lastFetchRows[k].Event_ID = calls[i].id
    /\ "revert_btn" \in shown => df.present

\* C10: when authenticate_google_calendar got its credential by a code
\* exchange or by a refresh, token.pickle holds the valid credential; and when
\* it asks for a code, no handle is returned.
C10_TokenPersistedOnAcquisition ==
    /\ authPath \in {"exchanged", "refreshed"} =>
          /\ service
          /\ tokenFile.exists
          /\ valid(tokenFile)
    /\ authPath = "need_code" =>
          /\ ~service
          /\ ui = <<"auth_warning">>

=============================================================================
